---- MODULE Spec2Model ----
(***************************************************************************)
(* TranscriptionManager of src/app.py: the session state shared by the     *)
(* Streamlit script thread (start_transcription / stop_transcription), the *)
(* websocket thread of each WebSocketApp (on_open / on_message / on_error  *)
(* / on_close) and the capture thread each on_open spawns (stream_audio).  *)
(*                                                                         *)
(* Strings are sequences of one-character strings.  The clock is counted   *)
(* in whole seconds and seen only where the code calls time.time(): now is *)
(* the value of the last call, and a call returns now or a later time.     *)
(* A callback that makes no blocking call                                  *)
(* (on_open, on_message, on_error, the reset block of start_transcription) *)
(* is one step; code around blocking calls (device, socket, file, lock) is *)
(* split at those calls.                                                   *)
(* Status texts are written without accents; "Error" stands for            *)
(* f"Error: {error}" and "Error microfono" for the microphone message.     *)
(***************************************************************************)
EXTENDS Integers, Sequences, FiniteSets, TLC

\* ------------------------------------------------------------------ bounds
MaxSessions == 2   \* sessions that get a device and a connection
MaxChunks   == 2   \* chunks the audio device delivers in a run
MaxText     == 6   \* characters of committed text in a run
MaxTime     == 3   \* seconds the clock advances in a run

\* ------------------------------------------------------- program constants
ParagraphGap == 2  \* silence_duration > 2.0

Sessions == 1..MaxSessions

\* transcripts the service sends in a Turn message ('' is the .get default)
Texts == { <<>>, <<"a">>, <<"b">> }

Message(type, transcript, final) ==
    [type |-> type, transcript |-> transcript, final |-> final]

\* the payloads on_message is given: Begin, Turn, Termination, text that
\* json.loads rejects, and a JSON object of another type
Messages ==
    { Message(t, <<>>, FALSE) : t \in {"Begin", "Termination", "Malformed", "Other"} }
    \cup { Message("Turn", x, f) : x \in Texts, f \in BOOLEAN }

VARIABLES
    now,              \* the time the last call of time.time() returned
    audio,            \* self.audio: 0 is None, s the PyAudio() of session s
    stream,           \* self.stream: 0 is None, s the input stream of session s
    ws_app,           \* self.ws_app: 0 is None, s the WebSocketApp of session s
    stop_event,       \* self.stop_event.is_set()
    recorded_frames,  \* self.recorded_frames
    committed_text,
    partial_text,
    transcript_text,
    last_final_time,
    status,
    is_running,
    ui,               \* where the script thread is inside start/stop
    nsess,            \* sessions that opened the device so far
    ws_thread,        \* per session: where its websocket thread is
    audio_thread,     \* per session: where its capture thread is
    audio_data,       \* per session: the chunk its capture thread holds
    nchunks,          \* chunks read from the device so far
    files,            \* the WAV files opened for writing, in order
    captured,         \* the chunks appended to the buffer so far, in order
    calls,            \* the calls made on the device and the connection by
                      \* the last start or stop that went past its guard
    cancelled,        \* the sessions whose capture thread had not ended when
                      \* a stop_transcription set stop_event
    seen,             \* what the script has read of the manager so far in
                      \* the run of the page in progress
    last              \* the step just taken

vars == << now, audio, stream, ws_app, stop_event, recorded_frames,
           committed_text, partial_text, transcript_text, last_final_time,
           status, is_running, ui, nsess, ws_thread, audio_thread, audio_data,
           nchunks, files, captured, calls, cancelled, seen, last >>

\* the fields on_message works on
merger == << committed_text, partial_text, transcript_text, last_final_time >>

NoMsg == Message("None", <<>>, FALSE)

\* the fields on_message works on, as they were before the step
Pre(committed, partial, last_time) ==
    [committed |-> committed, partial |-> partial, last_time |-> last_time]
NoPre == Pre(<<>>, <<>>, 0)

Step(op, s, msg) == [op |-> op, s |-> s, msg |-> msg, pre |-> NoPre]

\* a call on the device or the connection is made
Call(c) == Append(calls, c)


\* ------------------------------------------------------------------- Init
\* TranscriptionManager.__init__
Init ==
    /\ now = 0
    /\ audio = 0
    /\ stream = 0
    /\ ws_app = 0
    /\ stop_event = FALSE
    /\ recorded_frames = <<>>
    /\ committed_text = <<>>
    /\ partial_text = <<>>
    /\ transcript_text = <<>>
    /\ last_final_time = 0
    /\ status = "Detenido"
    /\ is_running = FALSE
    /\ ui = "idle"
    /\ nsess = 0
    /\ ws_thread = [s \in Sessions |-> "none"]
    /\ audio_thread = [s \in Sessions |-> "none"]
    /\ audio_data = [s \in Sessions |-> <<>>]
    /\ nchunks = 0
    /\ files = <<>>
    /\ captured = <<>>
    /\ calls = <<>>
    /\ cancelled = {}
    /\ seen = <<>>
    /\ last = Step("init", 0, NoMsg)

\* what a call of time.time() may return
Clock == now..MaxTime

\* ------------------------------------------------------------- on_message
\* Separator with the comparison off by one: a gap of exactly 2.0 s breaks
\* the paragraph
SeparatorAtGap(committed, silence_duration) ==
    IF committed = <<>> THEN <<>>
    ELSE IF silence_duration >= ParagraphGap THEN <<"\n", "\n">>
    ELSE <<" ">>

\* the separator put before a final transcript
Separator(committed, silence_duration) ==
    IF committed = <<>> THEN <<>>
    ELSE IF silence_duration > ParagraphGap THEN <<"\n", "\n">>
    ELSE <<" ">>

\* DisplayText with the separator put in unconditionally
DisplayTextAlwaysSpace(committed, partial) ==
    committed \o <<" ">> \o partial

\* the text shown: committed and partial joined by separator_partial
DisplayText(committed, partial) ==
    committed \o (IF committed # <<>> /\ partial # <<>> THEN <<" ">> ELSE <<>>)
              \o partial

\* CommitFinal without the test for an empty transcript
CommitFinalAlways(committed, transcript, current_time, last_time) ==
    [committed |-> committed
                   \o Separator(committed, current_time - last_time)
                   \o transcript,
     last_time |-> current_time]

\* CommitFinal that assigns where it should append
CommitFinalRewrite(committed, transcript, current_time, last_time) ==
    IF transcript # <<>>
    THEN [committed |-> transcript, last_time |-> current_time]
    ELSE [committed |-> committed, last_time |-> last_time]

\* the committed text and last_final_time after a Turn flagged turn_is_formatted
CommitFinal(committed, transcript, current_time, last_time) ==
    IF transcript # <<>>
    THEN [committed |-> committed
                        \o Separator(committed, current_time - last_time)
                        \o transcript,
          last_time |-> current_time]
    ELSE [committed |-> committed, last_time |-> last_time]

\* NextPartial that keeps the draft when the final arrives
NextPartialKept(transcript, is_final) ==
    IF is_final THEN partial_text ELSE transcript

\* NextPartial that appends where it should replace
NextPartialAppended(transcript, is_final) ==
    IF is_final THEN <<>> ELSE partial_text \o transcript

\* the partial text after a Turn
NextPartial(transcript, is_final) ==
    IF is_final THEN <<>> ELSE transcript

\* a Turn reads the clock if it is flagged turn_is_formatted and has text
ReadsClock(m) ==
    \/ m.type = "Begin"
    \/ m.type = "Turn" /\ m.final /\ m.transcript # <<>>

\* the "Turn" branch; current_time is what time.time() returns if called
OnTurn(transcript, is_final, current_time) ==
    LET c == IF is_final
             THEN CommitFinal(committed_text, transcript, current_time,
                              last_final_time)
             ELSE [committed |-> committed_text, last_time |-> last_final_time]
        p == NextPartial(transcript, is_final)
    IN  /\ committed_text' = c.committed
        /\ last_final_time' = c.last_time
        /\ partial_text' = p
        /\ transcript_text' = DisplayText(c.committed, p)

\* the "Begin" branch
OnBegin(current_time) ==
    /\ last_final_time' = current_time
    /\ UNCHANGED << committed_text, partial_text, transcript_text >>

on_message(s, m, current_time) ==
    /\ ws_thread[s] = "open"
    /\ now' = IF ReadsClock(m) THEN current_time ELSE now
    /\ CASE m.type = "Begin" -> OnBegin(current_time)
         [] m.type = "Turn"  -> OnTurn(m.transcript, m.final, current_time)
         [] OTHER            -> UNCHANGED merger
    /\ UNCHANGED << cancelled, seen >>
    /\ last' = [Step("on_message", s, m) EXCEPT
                   !.pre = Pre(committed_text, partial_text, last_final_time)]
    /\ UNCHANGED << audio, stream, ws_app, stop_event, recorded_frames,
                    status, is_running, ui, nsess, ws_thread, audio_thread,
                    audio_data, nchunks, files, captured, calls >>

\* ------------------------------------------------- on_open, on_error
on_open(s) ==
    /\ ws_thread[s] = "connecting"
    /\ ws_thread' = [ws_thread EXCEPT ![s] = "open"]
    /\ status' = "Conectado. Grabando..."
    /\ audio_thread' = [audio_thread EXCEPT ![s] = "test"]
    /\ UNCHANGED << cancelled, seen >>
    /\ last' = Step("on_open", s, NoMsg)
    /\ UNCHANGED << now, audio, stream, ws_app, stop_event, recorded_frames,
                    merger, is_running, ui, nsess, audio_data, nchunks, files, captured, calls >>

\* a connection or transport failure: run_forever calls on_error, then tears
\* the connection down and calls on_close
on_error(s) ==
    /\ ws_thread[s] \in {"connecting", "open"}
    /\ status' = "Error"
    /\ stop_event' = TRUE
    /\ ws_thread' = [ws_thread EXCEPT ![s] = "closed"]
    /\ UNCHANGED << cancelled, seen >>
    /\ last' = Step("on_error", s, NoMsg)
    /\ UNCHANGED << now, audio, stream, ws_app, recorded_frames, merger,
                    is_running, ui, nsess, audio_thread, audio_data, nchunks,
                    files, captured, calls >>

\* the service closes the connection
RemoteClose(s) ==
    /\ ws_thread[s] = "open"
    /\ ws_thread' = [ws_thread EXCEPT ![s] = "closed"]
    /\ UNCHANGED << cancelled, seen >>
    /\ last' = Step("remote_close", s, NoMsg)
    /\ UNCHANGED << now, audio, stream, ws_app, stop_event, recorded_frames,
                    merger, status, is_running, ui, nsess, audio_thread,
                    audio_data, nchunks, files, captured, calls >>

\* ------------------------------------------------ on_close, save_wav_file
\* Join that puts the chunks together last first
RECURSIVE JoinReversed(_)
JoinReversed(frames) ==
    IF frames = <<>> THEN <<>> ELSE JoinReversed(Tail(frames)) \o Head(frames)

\* b''.join(self.recorded_frames)
RECURSIVE Join(_)
Join(frames) ==
    IF frames = <<>> THEN <<>> ELSE Head(frames) \o Join(Tail(frames))

\* a WAV file: the session whose on_close wrote it, the bytes handed to
\* writeframes, and whether the write went through
File(s, data, ok) == [by |-> s, data |-> data, ok |-> ok]

\* on_close up to the test that opens save_wav_file
OnCloseBegin(s) ==
    /\ ws_thread[s] = "closed"
    /\ ws_thread' = [ws_thread EXCEPT ![s] =
           IF recorded_frames = <<>> THEN "close_finish" ELSE "save_write"]
    /\ UNCHANGED << cancelled, seen >>
    /\ last' = Step("on_close", s, NoMsg)
    /\ UNCHANGED << now, audio, stream, ws_app, stop_event, recorded_frames,
                    merger, status, is_running, ui, nsess, audio_thread,
                    audio_data, nchunks, files, captured, calls >>

\* wave.open and, under recording_lock, writeframes of the joined buffer
SaveWrite(s) ==
    /\ ws_thread[s] = "save_write"
    /\ files' = Append(files, File(s, Join(recorded_frames), TRUE))
    /\ UNCHANGED captured
    /\ ws_thread' = [ws_thread EXCEPT ![s] = "save_clear"]
    /\ UNCHANGED << cancelled, seen >>
    /\ last' = Step("save_write", s, NoMsg)
    /\ UNCHANGED << now, audio, stream, ws_app, stop_event, recorded_frames,
                    merger, status, is_running, ui, nsess, audio_thread,
                    audio_data, nchunks, calls >>

\* wave.open or writeframes raises: the except clause prints and returns
SaveFail(s) ==
    /\ ws_thread[s] = "save_write"
    /\ ws_thread' = [ws_thread EXCEPT ![s] = "close_finish"]
    /\ files' = Append(files, File(s, <<>>, FALSE))
    /\ UNCHANGED << cancelled, seen >>
    /\ last' = Step("save_fail", s, NoMsg)
    /\ UNCHANGED << now, audio, stream, ws_app, stop_event, recorded_frames,
                    merger, status, is_running, ui, nsess, audio_thread,
                    audio_data, nchunks, captured, calls >>

\* under recording_lock again, the buffer is reset
SaveClear(s) ==
    /\ ws_thread[s] = "save_clear"
    /\ recorded_frames' = <<>>
    /\ ws_thread' = [ws_thread EXCEPT ![s] = "close_finish"]
    /\ UNCHANGED << cancelled, seen >>
    /\ last' = Step("save_clear", s, NoMsg)
    /\ UNCHANGED << now, audio, stream, ws_app, stop_event, merger, status,
                    is_running, ui, nsess, audio_thread, audio_data, nchunks,
                    files, captured, calls >>

\* the rest of on_close, after save_wav_file has returned
OnCloseFinish(s) ==
    /\ ws_thread[s] = "close_finish"
    /\ is_running' = FALSE
    /\ status' = "Desconectado. Archivo guardado."
    /\ ws_thread' = [ws_thread EXCEPT ![s] = "done"]
    /\ UNCHANGED << cancelled, seen >>
    /\ last' = Step("on_close_done", s, NoMsg)
    /\ UNCHANGED << now, audio, stream, ws_app, stop_event, recorded_frames,
                    merger, ui, nsess, audio_thread, audio_data, nchunks,
                    files, captured, calls >>

\* ----------------------------------------------------------- stream_audio
ChunkLen == 2   \* bytes of a chunk in the model

\* the k-th chunk the device delivers, read from the stream of session s
Chunk(s, k) == [j \in 1..ChunkLen |-> << s, k, j >>]

\* while not self.stop_event.is_set()
AudioTest(s) ==
    /\ audio_thread[s] = "test"
    /\ audio_thread' = [audio_thread EXCEPT ![s] =
           IF stop_event THEN "done" ELSE "check"]
    /\ UNCHANGED << cancelled, seen >>
    /\ last' = Step("audio_test", s, NoMsg)
    /\ UNCHANGED << now, audio, stream, ws_app, stop_event, recorded_frames,
                    merger, status, is_running, ui, nsess, ws_thread,
                    audio_data, nchunks, files, captured, calls >>

\* if self.stream
AudioCheck(s) ==
    /\ audio_thread[s] = "check"
    /\ audio_thread' = [audio_thread EXCEPT ![s] =
           IF stream # 0 THEN "read" ELSE "test"]
    /\ UNCHANGED << cancelled, seen >>
    /\ last' = Step("audio_check", s, NoMsg)
    /\ UNCHANGED << now, audio, stream, ws_app, stop_event, recorded_frames,
                    merger, status, is_running, ui, nsess, ws_thread,
                    audio_data, nchunks, files, captured, calls >>

\* self.stream.read(...) returns a chunk
AudioRead(s) ==
    /\ audio_thread[s] = "read"
    /\ stream # 0
    /\ nchunks' = nchunks + 1
    /\ audio_data' = [audio_data EXCEPT ![s] = Chunk(stream, nchunks + 1)]
    /\ audio_thread' = [audio_thread EXCEPT ![s] = "append"]
    /\ UNCHANGED << cancelled, seen >>
    /\ last' = Step("audio_read", s, NoMsg)
    /\ UNCHANGED << now, audio, stream, ws_app, stop_event, recorded_frames,
                    merger, status, is_running, ui, nsess, ws_thread, files, captured, calls >>

\* self.stream has become None since the test: the read raises, the loop breaks
AudioReadFail(s) ==
    /\ audio_thread[s] = "read"
    /\ stream = 0
    /\ audio_thread' = [audio_thread EXCEPT ![s] = "done"]
    /\ UNCHANGED << cancelled, seen >>
    /\ last' = Step("audio_read_fail", s, NoMsg)
    /\ UNCHANGED << now, audio, stream, ws_app, stop_event, recorded_frames,
                    merger, status, is_running, ui, nsess, ws_thread,
                    audio_data, nchunks, files, captured, calls >>

\* with self.recording_lock: self.recorded_frames.append(audio_data)
AudioAppend(s) ==
    /\ audio_thread[s] = "append"
    /\ recorded_frames' = Append(recorded_frames, audio_data[s])
    /\ captured' = Append(captured, audio_data[s])
    /\ audio_thread' = [audio_thread EXCEPT ![s] = "send"]
    /\ UNCHANGED << cancelled, seen >>
    /\ last' = Step("audio_append", s, NoMsg)
    /\ UNCHANGED << now, audio, stream, ws_app, stop_event, merger, status,
                    is_running, ui, nsess, ws_thread, audio_data, nchunks,
                    files, calls >>

\* ws.send(audio_data, OPCODE_BINARY): raises once the socket is closed
AudioSend(s) ==
    /\ audio_thread[s] = "send"
    /\ audio_thread' = [audio_thread EXCEPT ![s] =
           IF ws_thread[s] = "open" THEN "test" ELSE "done"]
    /\ audio_data' = [audio_data EXCEPT ![s] = <<>>]
    /\ UNCHANGED << cancelled, seen >>
    /\ last' = Step("audio_send", s, NoMsg)
    /\ UNCHANGED << now, audio, stream, ws_app, stop_event, recorded_frames,
                    merger, status, is_running, ui, nsess, ws_thread, nchunks,
                    files, captured, calls >>

\* ---------------------------------------------------- start_transcription
\* start_transcription without its early return
StartReturnsNever == FALSE

\* if self.is_running: return
StartReturns == is_running

\* the call: the early return, or the reset of the session state;
\* current_time is what time.time() returns if called
StartCall(current_time) ==
    /\ ui = "idle"
    /\ UNCHANGED << cancelled, seen >>
    /\ last' = [Step("start_transcription", nsess, NoMsg) EXCEPT
                   !.pre = Pre(committed_text, partial_text, last_final_time)]
    /\ IF StartReturns
       THEN UNCHANGED << now, audio, stream, ws_app, stop_event,
                         recorded_frames, merger, status, is_running, ui,
                         nsess, ws_thread, audio_thread, audio_data, nchunks,
                         files, captured, calls >>
       ELSE /\ calls' = <<>>
            /\ stop_event' = FALSE
            /\ committed_text' = <<>>
            /\ partial_text' = <<>>
            /\ transcript_text' = <<>>
            /\ recorded_frames' = <<>>
            /\ now' = current_time
            /\ last_final_time' = current_time
            /\ is_running' = TRUE
            /\ status' = "Iniciando conexion..."
            /\ ui' = "start_open"
            /\ UNCHANGED << audio, stream, ws_app, nsess, ws_thread,
                            audio_thread, audio_data, nchunks, files,
                            captured >>

\* pyaudio.PyAudio() and self.audio.open(...) succeed: a session has its
\* device
StartOpen ==
    /\ ui = "start_open"
    /\ nsess < MaxSessions
    /\ nsess' = nsess + 1
    /\ audio' = nsess + 1
    /\ stream' = nsess + 1
    /\ calls' = Call("audio.open")
    /\ ui' = "start_ws"
    /\ UNCHANGED << cancelled, seen >>
    /\ last' = Step("start_open", nsess + 1, NoMsg)
    /\ UNCHANGED << now, ws_app, stop_event, recorded_frames, merger, status,
                    is_running, ws_thread, audio_thread, audio_data, nchunks,
                    files, captured >>

\* StartOpenFail without line 184: is_running stays True
StartOpenFailRunning ==
    /\ ui = "start_open"
    /\ audio' = nsess + 1
    /\ calls' = Call("audio.open")
    /\ status' = "Error microfono"
    /\ ui' = "idle"
    /\ UNCHANGED << cancelled, seen >>
    /\ last' = Step("start_open_fail", nsess, NoMsg)
    /\ UNCHANGED << now, stream, ws_app, stop_event, recorded_frames, merger,
                    is_running, nsess, ws_thread, audio_thread, audio_data,
                    nchunks, files, captured >>

\* self.audio.open(...) raises: self.audio keeps the PyAudio() just made
StartOpenFail ==
    /\ ui = "start_open"
    /\ audio' = nsess + 1
    /\ calls' = Call("audio.open")
    /\ status' = "Error microfono"
    /\ is_running' = FALSE
    /\ ui' = "idle"
    /\ UNCHANGED << cancelled, seen >>
    /\ last' = Step("start_open_fail", nsess, NoMsg)
    /\ UNCHANGED << now, stream, ws_app, stop_event, recorded_frames, merger,
                    nsess, ws_thread, audio_thread, audio_data, nchunks,
                    files, captured >>

\* the WebSocketApp is created and its thread started
StartWs ==
    /\ ui = "start_ws"
    /\ ws_app' = nsess
    /\ ws_thread' = [ws_thread EXCEPT ![nsess] = "connecting"]
    /\ calls' = Call("WebSocketApp")
    /\ ui' = "idle"
    /\ UNCHANGED << cancelled, seen >>
    /\ last' = Step("start_ws", nsess, NoMsg)
    /\ UNCHANGED << now, audio, stream, stop_event, recorded_frames, merger,
                    status, is_running, nsess, audio_thread, audio_data,
                    nchunks, files, captured >>

\* ----------------------------------------------------- stop_transcription
\* stop_transcription without its early return
StopReturnsNever == FALSE

\* if not self.is_running: return
StopReturns == ~is_running

\* the sessions whose capture thread has not ended
Unfinished == { s \in 1..nsess : audio_thread[s] # "done" }

\* the call: the early return, or the status and the cancellation signal
StopCall ==
    /\ ui = "idle"
    /\ UNCHANGED seen
    /\ last' = Step("stop_transcription", nsess, NoMsg)
    /\ IF StopReturns
       THEN UNCHANGED << now, audio, stream, ws_app, stop_event,
                         recorded_frames, merger, status, is_running, ui,
                         nsess, ws_thread, audio_thread, audio_data, nchunks,
                         files, captured, calls, cancelled >>
       ELSE /\ calls' = <<>>
            /\ cancelled' = cancelled \cup Unfinished
            /\ status' = "Deteniendo..."
            /\ stop_event' = TRUE
            /\ ui' = "stop_send"
            /\ UNCHANGED << now, audio, stream, ws_app, recorded_frames,
                            merger, is_running, nsess, ws_thread,
                            audio_thread, audio_data, nchunks, files,
                            captured >>

\* self.ws_app and self.ws_app.sock and self.ws_app.sock.connected
Connected == ws_app # 0 /\ ws_thread[ws_app] = "open"

\* the Terminate frame is sent whether or not the socket is connected
StopSendUnguarded ==
    /\ ui = "stop_send"
    /\ calls' = Call("ws.send_text")
    /\ ui' = "stop_close"
    /\ UNCHANGED << cancelled, seen >>
    /\ last' = Step("stop_send", nsess, NoMsg)
    /\ UNCHANGED << now, audio, stream, ws_app, stop_event, recorded_frames,
                    merger, status, is_running, nsess, ws_thread,
                    audio_thread, audio_data, nchunks, files, captured >>

\* the Terminate frame is sent if the socket is connected; a send that raises
\* is printed and the call goes on
StopSend ==
    /\ ui = "stop_send"
    /\ calls' = IF Connected THEN Call("ws.send_text") ELSE calls
    /\ ui' = "stop_close"
    /\ UNCHANGED << cancelled, seen >>
    /\ last' = Step("stop_send", nsess, NoMsg)
    /\ UNCHANGED << now, audio, stream, ws_app, stop_event, recorded_frames,
                    merger, status, is_running, nsess, ws_thread,
                    audio_thread, audio_data, nchunks, files, captured >>

\* self.ws_app.send raises (the socket went away under it): the exception is
\* printed and the call goes on
StopSendFail ==
    /\ ui = "stop_send"
    /\ Connected
    /\ calls' = Call("ws.send_text raised")
    /\ ui' = "stop_close"
    /\ UNCHANGED << cancelled, seen >>
    /\ last' = Step("stop_send_fail", nsess, NoMsg)
    /\ UNCHANGED << now, audio, stream, ws_app, stop_event, recorded_frames,
                    merger, status, is_running, nsess, ws_thread,
                    audio_thread, audio_data, nchunks, files, captured >>

\* self.ws_app.close(): the socket of a connection is closed, and its thread
\* goes on to on_close
StopClose ==
    /\ ui = "stop_close"
    /\ IF ws_app # 0
       THEN /\ calls' = Call("ws.close")
            /\ ws_thread' = [ws_thread EXCEPT ![ws_app] =
                   IF @ \in {"connecting", "open"} THEN "closed" ELSE @]
       ELSE UNCHANGED << calls, ws_thread >>
    /\ ui' = "stop_cleanup"
    /\ UNCHANGED << cancelled, seen >>
    /\ last' = Step("stop_close", nsess, NoMsg)
    /\ UNCHANGED << now, audio, stream, ws_app, stop_event, recorded_frames,
                    merger, status, is_running, nsess, audio_thread,
                    audio_data, nchunks, files, captured >>

\* self.ws_app.close() before run_forever has made its socket: there is
\* nothing to close and the connection goes on to open
StopCloseEarly ==
    /\ ui = "stop_close"
    /\ ws_app # 0
    /\ ws_thread[ws_app] = "connecting"
    /\ calls' = Call("ws.close")
    /\ ui' = "stop_cleanup"
    /\ UNCHANGED << cancelled, seen >>
    /\ last' = Step("stop_close_early", nsess, NoMsg)
    /\ UNCHANGED << now, audio, stream, ws_app, stop_event, recorded_frames,
                    merger, status, is_running, nsess, ws_thread,
                    audio_thread, audio_data, nchunks, files, captured >>

\* the stream and the device handle are released, is_running is cleared
StopCleanup ==
    /\ ui = "stop_cleanup"
    /\ stream' = 0
    /\ audio' = 0
    /\ calls' = calls \o (IF stream # 0 THEN <<"stream.close">> ELSE <<>>)
                     \o (IF audio # 0 THEN <<"audio.terminate">> ELSE <<>>)
    /\ is_running' = FALSE
    /\ ui' = "idle"
    /\ UNCHANGED << cancelled, seen >>
    /\ last' = Step("stop_cleanup", nsess, NoMsg)
    /\ UNCHANGED << now, ws_app, stop_event, recorded_frames, merger, status,
                    nsess, ws_thread, audio_thread, audio_data, nchunks,
                    files, captured >>

\* ------------------------------------------------------ the page's script
\* st.info(f"Estado: **{manager.status}**")
RenderStatus ==
    /\ ui = "idle"
    /\ seen' = << status >>
    /\ ui' = "render_running"
    /\ last' = Step("render_status", nsess, NoMsg)
    /\ UNCHANGED << now, audio, stream, ws_app, stop_event, recorded_frames,
                    merger, status, is_running, nsess, ws_thread,
                    audio_thread, audio_data, nchunks, files, captured,
                    calls, cancelled >>

\* if manager.is_running
RenderRunning ==
    /\ ui = "render_running"
    /\ seen' = Append(seen, is_running)
    /\ ui' = "render_text"
    /\ last' = Step("render_running", nsess, NoMsg)
    /\ UNCHANGED << now, audio, stream, ws_app, stop_event, recorded_frames,
                    merger, status, is_running, nsess, ws_thread,
                    audio_thread, audio_data, nchunks, files, captured,
                    calls, cancelled >>

\* text_area.text_area(..., value=manager.transcript_text, ...)
RenderText ==
    /\ ui = "render_text"
    /\ seen' = Append(seen, transcript_text)
    /\ ui' = "render_done"
    /\ last' = Step("render_text", nsess, NoMsg)
    /\ UNCHANGED << now, audio, stream, ws_app, stop_event, recorded_frames,
                    merger, status, is_running, nsess, ws_thread,
                    audio_thread, audio_data, nchunks, files, captured,
                    calls, cancelled >>

\* the run of the page ends; the next one starts from the top
RenderEnd ==
    /\ ui = "render_done"
    /\ seen' = <<>>
    /\ ui' = "idle"
    /\ last' = Step("render_end", nsess, NoMsg)
    /\ UNCHANGED << now, audio, stream, ws_app, stop_event, recorded_frames,
                    merger, status, is_running, nsess, ws_thread,
                    audio_thread, audio_data, nchunks, files, captured,
                    calls, cancelled >>

Render == RenderStatus \/ RenderRunning \/ RenderText \/ RenderEnd

\* ------------------------------------------------------------------- Next
\* the websocket thread of session s has ended, or has not started
Closed(s) == ws_thread[s] \in {"none", "done"}

\* so have both threads of session s
Ended(s) == Closed(s) /\ audio_thread[s] \in {"none", "done"}

\* the code behind the two buttons but for the entry of start_transcription;
\* the device opens when may_open holds
Script(may_open) ==
    \/ may_open /\ StartOpen
    \/ StartOpenFail
    \/ StartWs
    \/ StopCall
    \/ StopSend
    \/ StopSendFail
    \/ StopClose
    \/ StopCloseEarly
    \/ StopCleanup

\* the websocket thread of session s, but for the messages and the file
Connection(s) ==
    \/ on_open(s)
    \/ on_error(s)
    \/ RemoteClose(s)
    \/ OnCloseBegin(s)
    \/ OnCloseFinish(s)

\* save_wav_file past its test, in the websocket thread of session s
Save(s) ==
    \/ SaveWrite(s)
    \/ SaveFail(s)
    \/ SaveClear(s)

\* the capture thread of session s
Capture(s) ==
    \/ AudioTest(s)
    \/ AudioCheck(s)
    \/ nchunks < MaxChunks /\ AudioRead(s)
    \/ AudioReadFail(s)
    \/ AudioAppend(s)
    \/ AudioSend(s)

\* the service's messages, each at its time, while the committed text has
\* room for a paragraph break and a transcript
Transcript(s) ==
    /\ Len(committed_text) + 3 <= MaxText
    /\ \E m \in Messages :
         \E t \in (IF ReadsClock(m) THEN Clock ELSE {now}) : on_message(s, m, t)

\* The audio path of sessions that follow one another, each getting its
\* device once the threads of the one before have ended: the script thread,
\* the connection and the capture thread.  No message arrives; the messages
\* touch none of the buffer, the files, the device, the connection, and the
\* clock, read by the transcript path alone, stands still.
Next ==
    \/ StartCall(now)
    \/ Script(\A s \in Sessions : Ended(s))
    \/ \E s \in Sessions : Connection(s) \/ Save(s) \/ Capture(s)

Spec == Init /\ [][Next]_vars

\* The transcript path of sessions that follow one another, each getting its
\* device once the connection of the one before has closed: the script
\* thread, the connection and its messages.  No capture thread runs,
\* so the buffer stays empty and on_close never gets to write a file; the
\* capture thread and the file writer touch none of committed_text,
\* partial_text, transcript_text, last_final_time.
NextMerge ==
    \/ \E t \in (IF StartReturns THEN {now} ELSE Clock) : StartCall(t)
    \/ Script(\A s \in Sessions : Closed(s))
    \/ \E s \in Sessions : Connection(s) \/ Transcript(s)

SpecMerge == Init /\ [][NextMerge]_vars

\* The audio path of sessions that start while the threads of the earlier
\* ones may still run.
NextSessions ==
    \/ StartCall(now)
    \/ Script(TRUE)
    \/ \E s \in Sessions : Connection(s) \/ Save(s) \/ Capture(s)

SpecSessions == Init /\ [][NextSessions]_vars

\* The first session of a manager, its transcript path and the page that
\* shows it: start_transcription is called once, from 'Detenido'; the page
\* is run again and again between the calls.
NextRender ==
    \/ status = "Detenido" /\ \E t \in Clock : StartCall(t)
    \/ Script(TRUE)
    \/ Render
    \/ \E s \in Sessions : Connection(s) \/ Transcript(s)

SpecRender == Init /\ [][NextRender]_vars

\* ----------------------------------------------------------------- claims
\* the step just taken handled a Turn message
TurnHandled(is_final) ==
    /\ last.op = "on_message"
    /\ last.msg.type = "Turn"
    /\ last.msg.final = is_final

IsPrefix(a, b) ==
    /\ Len(a) <= Len(b)
    /\ SubSeq(b, 1, Len(a)) = a

\* C1: a Final with non-empty text leaves committed_text = old committed text
\* + separator + text, the separator being empty when the old committed text
\* is empty, a paragraph break when more than 2.0 s have passed since
\* last_final_time, and one space otherwise (2.0 s exactly included).
C1_FinalAppendsSeparatorAndText ==
    (TurnHandled(TRUE) /\ last.msg.transcript # <<>>) =>
        LET old  == last.pre.committed
            gap  == last_final_time - last.pre.last_time
            sep  == IF old = <<>> THEN <<>>
                    ELSE IF gap > 2 THEN <<"\n", "\n">>
                    ELSE <<" ">>
        IN  committed_text = old \o sep \o last.msg.transcript

\* a third Final has just been committed: the first without separator, the
\* second after a space, the third after a paragraph break
C1_Witness ==
    /\ TurnHandled(TRUE)
    /\ committed_text = << "a", " ", "b", "\n", "\n", "a" >>

\* C2: within a session the committed text is append-only: every step but
\* the reset of start_transcription leaves the old committed text a prefix
\* of the new one.
C2_CommittedAppendOnly ==
    [][ last'.op # "start_transcription"
            => IsPrefix(committed_text, committed_text') ]_vars

\* the connection of a session that committed two finals and holds a draft
\* has closed, and the text is still there
C2_Witness ==
    /\ last.op = "on_close_done"
    /\ status = "Desconectado. Archivo guardado."
    /\ Len(committed_text) >= 3
    /\ partial_text # <<>>

\* C3: a Final with empty text leaves committed_text and last_final_time as
\* they were.
C3_EmptyFinalCommitsNothing ==
    (TurnHandled(TRUE) /\ last.msg.transcript = <<>>) =>
        /\ committed_text = last.pre.committed
        /\ last_final_time = last.pre.last_time

\* an empty Final has come after a committed one, later than it
C3_Witness ==
    /\ TurnHandled(TRUE)
    /\ last.msg.transcript = <<>>
    /\ committed_text # <<>>

\* C4: after any Final the partial text is empty and the display text is the
\* committed text, whatever the partial text was.
C4_FinalClearsPartial ==
    TurnHandled(TRUE) =>
        /\ partial_text = <<>>
        /\ transcript_text = committed_text

\* a Final has come while a draft was held
C4_Witness ==
    /\ TurnHandled(TRUE)
    /\ last.pre.partial # <<>>
    /\ committed_text # <<>>

\* C5: a Partial replaces the partial text: the display text is the unchanged
\* committed text followed by the latest partial only, and committed_text and
\* last_final_time stay; after an empty Partial the display text is the
\* committed text.
C5_PartialReplaces ==
    TurnHandled(FALSE) =>
        /\ committed_text = last.pre.committed
        /\ last_final_time = last.pre.last_time
        /\ partial_text = last.msg.transcript
        /\ transcript_text =
              IF last.msg.transcript = <<>> THEN committed_text
              ELSE IF committed_text = <<>> THEN last.msg.transcript
              ELSE committed_text \o <<" ">> \o last.msg.transcript

\* a Partial has replaced another draft, after some text was committed
C5_Witness ==
    /\ TurnHandled(FALSE)
    /\ last.pre.partial = <<"a">>
    /\ last.msg.transcript = <<"b">>
    /\ committed_text # <<>>

\* C6: transcript_text is the function of committed_text and partial_text:
\* both joined by a space when both are non-empty, else the non-empty one,
\* else empty.
C6_DisplayInStep ==
    transcript_text =
        IF committed_text # <<>> /\ partial_text # <<>>
        THEN committed_text \o <<" ">> \o partial_text
        ELSE IF committed_text # <<>> THEN committed_text
        ELSE partial_text

\* start_transcription has just reset a session that had committed text and
\* held a draft
C6_Witness ==
    /\ last.op = "start_transcription"
    /\ ui = "start_open"
    /\ last.pre.committed # <<>>
    /\ last.pre.partial # <<>>

\* the session whose stream a chunk was read from
SessionOf(chunk) == chunk[1][1]

\* the sessions of which a chunk was appended to the buffer
Recorded == { SessionOf(captured[i]) : i \in DOMAIN captured }

\* the files written that hold audio of session s
FilesWith(s) ==
    { i \in DOMAIN files :
        files[i].ok /\ \E j \in DOMAIN files[i].data : files[i].data[j][1] = s }

\* session s is over: its connection has closed and its capture thread ended
Over(s) == ws_thread[s] = "done" /\ audio_thread[s] = "done"

\* C7: the audio of a session is written to one file, once, in the close
\* callback of its connection: no two files hold audio of the same session, a
\* file holds audio only of the session whose on_close wrote it, and a
\* session that recorded a chunk and whose write did not fail has its file
\* when it is over.
C7_WrittenOnceAtClose ==
    \A s \in Sessions :
        /\ Cardinality(FilesWith(s)) <= 1
        /\ \A i \in FilesWith(s) : files[i].by = s
        /\ (Over(s) /\ s \in Recorded /\ \A i \in DOMAIN files : files[i].ok)
              => Cardinality(FilesWith(s)) = 1

\* the bytes of the chunks of a buffer, in order, by position
Bytes(frames) ==
    [i \in 1..(Len(frames) * ChunkLen) |->
        frames[((i - 1) \div ChunkLen) + 1][((i - 1) % ChunkLen) + 1]]

\* the last n chunks appended
LastCaptured(n) == SubSeq(captured, Len(captured) - n + 1, Len(captured))

\* C8: the file writer is handed the bytes of the chunks appended, in the
\* order of capture; once the buffer is cleared it is empty; and a
\* finalization that finds the buffer empty writes nothing.
C8_BufferRoundTrip ==
    /\ last.op = "save_write" =>
          /\ Len(recorded_frames) <= Len(captured)
          /\ files[Len(files)].data = Bytes(LastCaptured(Len(recorded_frames)))
    /\ last.op = "save_clear" => recorded_frames = <<>>
    /\ (last.op = "on_close" /\ recorded_frames = <<>>) =>
          ws_thread[last.s] = "close_finish"

\* two chunks were appended and have just been written
C8_Witness ==
    /\ last.op = "save_write"
    /\ Len(recorded_frames) = 2
    /\ Len(files[Len(files)].data) = 2 * ChunkLen

\* a later finalization found the buffer empty and wrote nothing
C8_WitnessEmpty ==
    /\ last.op = "on_close"
    /\ recorded_frames = <<>>
    /\ Len(files) = 1
    /\ files[1].ok

\* what stop_transcription and start_transcription leave alone when they
\* return at once: all but the record of the step
Untouched ==
    UNCHANGED << now, audio, stream, ws_app, stop_event, recorded_frames,
                 committed_text, partial_text, transcript_text,
                 last_final_time, status, is_running, ui, nsess, ws_thread,
                 audio_thread, audio_data, nchunks, files,
                 captured, calls, cancelled, seen >>

\* C9: stop_transcription called when is_running is False changes nothing
\* and calls neither the device nor the connection.
C9_StopWhenNotRunning ==
    [][ (last'.op = "stop_transcription" /\ ~is_running)
            => Untouched ]_vars

\* stop_transcription has returned at once on a session already stopped, its
\* file written
C9_Witness ==
    /\ last.op = "stop_transcription"
    /\ ui = "idle"
    /\ ~is_running
    /\ status = "Desconectado. Archivo guardado."
    /\ Len(files) = 1
    /\ files[1].ok

\* C10 as amended: start_transcription called while is_running is True
\* changes nothing and opens no device and no connection.
C10_StartWhenRunning ==
    [][ (last'.op = "start_transcription" /\ is_running)
            => Untouched ]_vars

\* start_transcription has returned at once on a session that has committed
\* text and holds a draft
C10_Witness ==
    /\ last.op = "start_transcription"
    /\ ui = "idle"
    /\ is_running
    /\ committed_text # <<>>
    /\ partial_text # <<>>

\* C10 as stated: start_transcription is a no-op in every state other than
\* Idle ('Detenido') and Stopped ('Desconectado. Archivo guardado.').
C10_StartOutsideIdleStopped ==
    [][ (last'.op = "start_transcription"
           /\ status \notin {"Detenido", "Desconectado. Archivo guardado."})
        => Untouched ]_vars

\* C11: a capture thread that a stop_transcription set out to cancel leaves
\* the loop at its next test of stop_event: it never goes from the test into
\* another iteration.
C11_StopObservedAtNextTest ==
    [][ \A s \in Sessions :
          (s \in cancelled /\ audio_thread[s] = "test"
                           /\ audio_thread'[s] # "test")
             => audio_thread'[s] = "done" ]_vars

\* C12: when opening the audio device fails, start_transcription sets the
\* microphone-error status, leaves is_running False and returns having made
\* no WebSocketApp and started no thread; and as long as that start is the
\* last one, the session stays not running.
C12_MicFailureStartsNothing ==
    [][ /\ last'.op = "start_open_fail" =>
             /\ status' = "Error microfono"
             /\ is_running' = FALSE
             /\ ui' = "idle"
             /\ calls' = <<"audio.open">>
             /\ UNCHANGED << ws_app, ws_thread, audio_thread, nsess, stream >>
        /\ (ui' = "idle" /\ calls' = <<"audio.open">>) => ~is_running'
      ]_vars

\* the microphone failed to open in a start that followed a whole session
C12_Witness ==
    /\ last.op = "start_open_fail"
    /\ status = "Error microfono"
    /\ ~is_running
    /\ nsess = 1
    /\ Ended(1)
    /\ Len(files) = 1
    /\ files[1].ok

\* C13: on_error sets the status to the error text and sets stop_event and
\* opens no connection, and when on_close follows the error the status is
\* still the error text.
C13_ErrorEndsFailed ==
    [][ /\ last'.op = "on_error" =>
             (status' = "Error" /\ stop_event' /\ UNCHANGED << ws_app, nsess >>)
        /\ (last'.op = "on_close_done" /\ status = "Error")
              => status' = "Error" ]_vars

\* C14: when the write of the file fails, save_wav_file returns with the
\* buffer empty, and on_close goes on to clear is_running.
C14_FailedSaveClearsBuffer ==
    /\ last.op = "save_fail" => recorded_frames = <<>>
    /\ last.op = "on_close_done" => ~is_running

\* what the three fields the page shows can hold together in a state of the
\* first session: before the start nothing runs and there is no text, and
\* the status set by the start stands only while the session is running and
\* has received nothing
ObservableState(st, running, text) ==
    /\ st = "Detenido" => (~running /\ text = <<>>)
    /\ st = "Iniciando conexion..." => (running /\ text = <<>>)

\* every state of the first session is such a state
C15_StatesObservable ==
    ObservableState(status, is_running, transcript_text)

\* C15: the status, is_running and transcript_text that one run of the page
\* has read are values the three fields can hold together in one state.
C15_ReadsNeverTorn ==
    ui = "render_done" => ObservableState(seen[1], seen[2], seen[3])

\* C16: the status never goes from "Deteniendo..." or "Desconectado. Archivo
\* guardado." back to "Conectado. Grabando...", and a call of
\* stop_transcription changes nothing unless the status is "Conectado.
\* Grabando..."
Streaming == "Conectado. Grabando..."

C16_LifecycleOrder ==
    [][ /\ status \in {"Deteniendo...", "Desconectado. Archivo guardado."}
              => status' # Streaming
        /\ (last'.op = "stop_transcription" /\ status # Streaming)
              => UNCHANGED << status, stop_event, is_running, ui >> ]_vars

\* C17: a stop_transcription past its guard sets stop_event first, sends the
\* Terminate frame only if the socket is connected, then closes the
\* connection, then closes the stream and terminates the device handle; the
\* frame is never sent after the close, and a send that raises is followed by
\* the close and the release all the same
StopRank(c) ==
    CASE c \in {"ws.send_text", "ws.send_text raised"} -> 1
      [] c = "ws.close"        -> 2
      [] c = "stream.close"    -> 3
      [] c = "audio.terminate" -> 4
      [] OTHER                 -> 0

InStopOrder(cs) ==
    \A i, j \in DOMAIN cs : i < j => (0 < StopRank(cs[i]) /\ StopRank(cs[i]) < StopRank(cs[j]))

StopSteps == {"stop_send", "stop_close", "stop_cleanup"}

C17_StopOrder ==
    [][ /\ (ui' \in StopSteps \/ last'.op = "stop_cleanup")
              => (stop_event' /\ InStopOrder(calls'))
        /\ last'.op \in {"stop_send", "stop_send_fail"}
              => ((calls' # calls) <=> Connected)
        /\ last'.op = "stop_cleanup"
              => /\ stream' = 0 /\ audio' = 0 /\ ~is_running'
                 /\ \A c \in {"ws.close", "stream.close", "audio.terminate"} :
                       \E i \in DOMAIN calls' : calls'[i] = c ]_vars

\* a stop whose Terminate frame could not be sent has closed the connection
\* and released the device
C17_Witness ==
    /\ last.op = "stop_cleanup"
    /\ calls = << "ws.send_text raised", "ws.close", "stream.close",
                  "audio.terminate" >>
    /\ stream = 0 /\ audio = 0 /\ stop_event

\* C18: the reset of the buffer in save_wav_file drops nothing but what was
\* written to the file: no chunk appended by the capture thread is in the
\* buffer at the reset without being in the bytes of the file just written
C18_ResetDropsOnlyWritten ==
    [][ last'.op = "save_clear"
          => IsPrefix(Join(recorded_frames), files[Len(files)].data) ]_vars

\* the session the last start_transcription past its guard began: it has its
\* number once its device has opened
Current == IF ui = "start_open" THEN nsess + 1 ELSE nsess

\* the sessions whose capture thread, or whose connection, is at work
Capturing == { s \in Sessions : audio_thread[s] \notin {"none", "done"} }
Connections == { s \in Sessions : ws_thread[s] \notin {"none", "done"} }

\* C19: at most one capture thread and one connection are at work, and a
\* step of the connection or of the capture thread of an earlier session
\* leaves is_running and the audio buffer of the session begun since as they
\* are
C19_SessionIsolation ==
    [][ /\ Cardinality(Capturing') <= 1
        /\ Cardinality(Connections') <= 1
        /\ last'.s < Current =>
             /\ last'.op = "on_close_done" => is_running' = is_running
             /\ last'.op \in {"save_clear", "audio_append"}
                   => recorded_frames' = recorded_frames ]_vars

\* C20: when is_running is False and neither start_transcription nor
\* stop_transcription is in progress, the stream and the device handle are
\* None and no capture thread is reading from the device
C20_DeviceHeldOnlyWhileRunning ==
    (~is_running /\ ui = "idle")
       => /\ stream = 0
          /\ audio = 0
          /\ \A s \in Sessions : audio_thread[s] # "read"

====
